---- MODULE Spec2Model ----
(***************************************************************************)
(* Makegen: the detection engine (internal/detector/analyzer.go), the      *)
(* questionnaire (internal/ui/questionnaire.go), the application pipeline  *)
(* (internal/app/generator.go) and the writer (storage.LocalFileSystem).   *)
(*                                                                         *)
(* The project root is modelled by what os.Stat, os.ReadDir and            *)
(* os.ReadFile answer for it.  Text is modelled as sequences of tokens: a  *)
(* token is one significant character (" ", "\t", "#", ":") or a word of   *)
(* letters, so that prefix, suffix, trimming and indexing work on tokens   *)
(* as they work on bytes in the source.                                    *)
(***************************************************************************)
EXTENDS Integers, Sequences, FiniteSets, TLC

VARIABLES
    exists,       \* names in the root for which os.Stat succeeds
    dirs,         \* the names among them that are directories
    unreadable,   \* names for which os.ReadFile fails
    listable,     \* whether os.ReadDir of the root succeeds
    composeText,  \* content of the compose files: name -> sequence of lines
    manifestText, \* content of the text manifests: name -> sequence of words
    packageJson,  \* content of package.json
    writable,     \* whether os.WriteFile into the root succeeds
    diskMakefile, \* content of the Makefile the tool wrote (NoText: none written)
    result,       \* the detector.Result of the last Analyze (zero value before)
    subErrs,      \* the errors the four sub-detectors returned to Analyze
    config,       \* the MakefileConfig of the questionnaire
    makefile,     \* the text Build returned (NoText before, and when it failed)
    displayed,    \* the text printed as preview (NoText: nothing printed)
    writes,       \* number of WriteMakefile calls of the run
    pc,           \* position of App.Run
    runErr,       \* the error App.Run returned: [stage, cause]
    stdin,        \* the lines of standard input no reader has taken yet
    qbuf,         \* the lines held in the buffer of the questionnaire's reader
    askPc,        \* position of Questionnaire.Ask ("idle" outside of it)
    customAsked   \* times "Add custom target?" was asked, counted up to MaxCustomAsked

vars == <<exists, dirs, unreadable, listable, composeText, manifestText, packageJson,
          writable, diskMakefile, result, subErrs, config, makefile, displayed, writes,
          pc, runErr, stdin, qbuf, askPc, customAsked>>

\* the state of the questionnaire's dialogue
inVars == <<stdin, qbuf, askPc, customAsked>>

\* the project root as the probes see it
fsVars == <<exists, dirs, unreadable, listable, composeText, manifestText, packageJson,
            writable>>

\* errors are records [kind, name]; Nil is Go's nil error
Nil == [kind |-> "nil", name |-> <<>>]

Error(kind, name) == [kind |-> kind, name |-> name]

\* the text value that stands for "no text": every rendered text has a line
NoText == <<>>

\* ------------------------------------------------------------------------
\* Sequence helpers
\* ------------------------------------------------------------------------

Range(s) == {s[i] : i \in 1..Len(s)}

RECURSIVE SeqsUpTo(_, _)
\* all sequences over S of length at most n
SeqsUpTo(S, n) ==
    IF n = 0 THEN {<<>>}
    ELSE LET shorter == SeqsUpTo(S, n - 1)
         IN shorter \cup {Append(s, x) : s \in {t \in shorter : Len(t) = n - 1}, x \in S}

\* ------------------------------------------------------------------------
\* File probes
\* ------------------------------------------------------------------------

\* os.Stat succeeds: a regular file or a directory of that name is there
fileExists(name) == name \in exists

dirExists(name) == name \in exists /\ name \in dirs

\* os.ReadFile succeeds (a directory cannot be read as a file)
readable(name) == name \in exists /\ name \notin dirs /\ name \notin unreadable

\* ------------------------------------------------------------------------
\* Language detection
\* ------------------------------------------------------------------------

Languages == {"go", "python", "javascript", "typescript", "rust", "java",
              "ruby", "php", "cpp", "unknown"}

LanguageMarkerFiles == {"go.mod", "requirements.txt", "setup.py", "pyproject.toml",
                        "package.json", "Cargo.toml", "pom.xml", "build.gradle",
                        "build.gradle.kts", "Gemfile", "composer.json",
                        "CMakeLists.txt", "Makefile"}

EmptyResult ==
    [Language |-> "", Frameworks |-> <<>>, DockerDetected |-> FALSE,
     DockerServices |-> <<>>, TestDirFound |-> FALSE, BuildDirFound |-> FALSE,
     HasVendor |-> FALSE, HasModules |-> FALSE, DependencyFiles |-> <<>>,
     ConfigFiles |-> <<>>, MainEntrypoint |-> ""]

\* mutant: the generic build markers are probed before the PHP manifest
detectLanguage_CppBeforePhp(res) ==
    IF fileExists("go.mod")
    THEN [res |-> [res EXCEPT !.Language = "go", !.HasModules = TRUE], err |-> Nil]
    ELSE IF fileExists("requirements.txt") \/ fileExists("setup.py") \/ fileExists("pyproject.toml")
    THEN [res |-> [res EXCEPT !.Language = "python"], err |-> Nil]
    ELSE IF fileExists("package.json")
    THEN [res |-> [res EXCEPT !.Language = IF fileExists("tsconfig.json")
                                            THEN "typescript" ELSE "javascript",
                              !.HasModules = TRUE], err |-> Nil]
    ELSE IF fileExists("Cargo.toml")
    THEN [res |-> [res EXCEPT !.Language = "rust"], err |-> Nil]
    ELSE IF fileExists("pom.xml")
    THEN [res |-> [res EXCEPT !.Language = "java"], err |-> Nil]
    ELSE IF fileExists("build.gradle") \/ fileExists("build.gradle.kts")
    THEN [res |-> [res EXCEPT !.Language = "java"], err |-> Nil]
    ELSE IF fileExists("Gemfile")
    THEN [res |-> [res EXCEPT !.Language = "ruby"], err |-> Nil]
    ELSE IF fileExists("CMakeLists.txt") \/ fileExists("Makefile")
    THEN [res |-> [res EXCEPT !.Language = "cpp"], err |-> Nil]
    ELSE IF fileExists("composer.json")
    THEN [res |-> [res EXCEPT !.Language = "php"], err |-> Nil]
    ELSE [res |-> [res EXCEPT !.Language = "unknown"], err |-> Nil]

\* mutant: the default branch is missing, the language keeps its zero value
detectLanguage_NoDefault(res) ==
    IF fileExists("go.mod")
    THEN [res |-> [res EXCEPT !.Language = "go", !.HasModules = TRUE], err |-> Nil]
    ELSE IF fileExists("requirements.txt") \/ fileExists("setup.py") \/ fileExists("pyproject.toml")
    THEN [res |-> [res EXCEPT !.Language = "python"], err |-> Nil]
    ELSE IF fileExists("package.json")
    THEN [res |-> [res EXCEPT !.Language = IF fileExists("tsconfig.json")
                                            THEN "typescript" ELSE "javascript",
                              !.HasModules = TRUE], err |-> Nil]
    ELSE IF fileExists("Cargo.toml")
    THEN [res |-> [res EXCEPT !.Language = "rust"], err |-> Nil]
    ELSE IF fileExists("pom.xml")
    THEN [res |-> [res EXCEPT !.Language = "java"], err |-> Nil]
    ELSE IF fileExists("build.gradle") \/ fileExists("build.gradle.kts")
    THEN [res |-> [res EXCEPT !.Language = "java"], err |-> Nil]
    ELSE IF fileExists("Gemfile")
    THEN [res |-> [res EXCEPT !.Language = "ruby"], err |-> Nil]
    ELSE IF fileExists("composer.json")
    THEN [res |-> [res EXCEPT !.Language = "php"], err |-> Nil]
    ELSE IF fileExists("CMakeLists.txt") \/ fileExists("Makefile")
    THEN [res |-> [res EXCEPT !.Language = "cpp"], err |-> Nil]
    ELSE [res |-> res, err |-> Nil]

\* mutant: tsconfig.json alone is taken for a marker of the Node.js family
detectLanguage_TsconfigIsMarker(res) ==
    IF fileExists("go.mod")
    THEN [res |-> [res EXCEPT !.Language = "go", !.HasModules = TRUE], err |-> Nil]
    ELSE IF fileExists("requirements.txt") \/ fileExists("setup.py") \/ fileExists("pyproject.toml")
    THEN [res |-> [res EXCEPT !.Language = "python"], err |-> Nil]
    ELSE IF fileExists("package.json") \/ fileExists("tsconfig.json")
    THEN [res |-> [res EXCEPT !.Language = IF fileExists("tsconfig.json")
                                            THEN "typescript" ELSE "javascript",
                              !.HasModules = TRUE], err |-> Nil]
    ELSE IF fileExists("Cargo.toml")
    THEN [res |-> [res EXCEPT !.Language = "rust"], err |-> Nil]
    ELSE IF fileExists("pom.xml")
    THEN [res |-> [res EXCEPT !.Language = "java"], err |-> Nil]
    ELSE IF fileExists("build.gradle") \/ fileExists("build.gradle.kts")
    THEN [res |-> [res EXCEPT !.Language = "java"], err |-> Nil]
    ELSE IF fileExists("Gemfile")
    THEN [res |-> [res EXCEPT !.Language = "ruby"], err |-> Nil]
    ELSE IF fileExists("composer.json")
    THEN [res |-> [res EXCEPT !.Language = "php"], err |-> Nil]
    ELSE IF fileExists("CMakeLists.txt") \/ fileExists("Makefile")
    THEN [res |-> [res EXCEPT !.Language = "cpp"], err |-> Nil]
    ELSE [res |-> [res EXCEPT !.Language = "unknown"], err |-> Nil]

\* mutant: Makefile is not a marker of cpp
detectLanguage_NoMakefileMarker(res) ==
    IF fileExists("go.mod")
    THEN [res |-> [res EXCEPT !.Language = "go", !.HasModules = TRUE], err |-> Nil]
    ELSE IF fileExists("requirements.txt") \/ fileExists("setup.py") \/ fileExists("pyproject.toml")
    THEN [res |-> [res EXCEPT !.Language = "python"], err |-> Nil]
    ELSE IF fileExists("package.json")
    THEN [res |-> [res EXCEPT !.Language = IF fileExists("tsconfig.json")
                                            THEN "typescript" ELSE "javascript",
                              !.HasModules = TRUE], err |-> Nil]
    ELSE IF fileExists("Cargo.toml")
    THEN [res |-> [res EXCEPT !.Language = "rust"], err |-> Nil]
    ELSE IF fileExists("pom.xml")
    THEN [res |-> [res EXCEPT !.Language = "java"], err |-> Nil]
    ELSE IF fileExists("build.gradle") \/ fileExists("build.gradle.kts")
    THEN [res |-> [res EXCEPT !.Language = "java"], err |-> Nil]
    ELSE IF fileExists("Gemfile")
    THEN [res |-> [res EXCEPT !.Language = "ruby"], err |-> Nil]
    ELSE IF fileExists("composer.json")
    THEN [res |-> [res EXCEPT !.Language = "php"], err |-> Nil]
    ELSE IF fileExists("CMakeLists.txt")
    THEN [res |-> [res EXCEPT !.Language = "cpp"], err |-> Nil]
    ELSE [res |-> [res EXCEPT !.Language = "unknown"], err |-> Nil]

\* detectLanguage: the ordered chain of marker probes, each returning at once
detectLanguage(res) ==
    IF fileExists("go.mod")
    THEN [res |-> [res EXCEPT !.Language = "go", !.HasModules = TRUE], err |-> Nil]
    ELSE IF fileExists("requirements.txt") \/ fileExists("setup.py") \/ fileExists("pyproject.toml")
    THEN [res |-> [res EXCEPT !.Language = "python"], err |-> Nil]
    ELSE IF fileExists("package.json")
    THEN [res |-> [res EXCEPT !.Language = IF fileExists("tsconfig.json")
                                            THEN "typescript" ELSE "javascript",
                              !.HasModules = TRUE], err |-> Nil]
    ELSE IF fileExists("Cargo.toml")
    THEN [res |-> [res EXCEPT !.Language = "rust"], err |-> Nil]
    ELSE IF fileExists("pom.xml")
    THEN [res |-> [res EXCEPT !.Language = "java"], err |-> Nil]
    ELSE IF fileExists("build.gradle") \/ fileExists("build.gradle.kts")
    THEN [res |-> [res EXCEPT !.Language = "java"], err |-> Nil]
    ELSE IF fileExists("Gemfile")
    THEN [res |-> [res EXCEPT !.Language = "ruby"], err |-> Nil]
    ELSE IF fileExists("composer.json")
    THEN [res |-> [res EXCEPT !.Language = "php"], err |-> Nil]
    ELSE IF fileExists("CMakeLists.txt") \/ fileExists("Makefile")
    THEN [res |-> [res EXCEPT !.Language = "cpp"], err |-> Nil]
    ELSE [res |-> [res EXCEPT !.Language = "unknown"], err |-> Nil]

\* ------------------------------------------------------------------------
\* Framework detection
\* ------------------------------------------------------------------------

TextManifests == {"go.mod", "requirements.txt", "pyproject.toml", "Cargo.toml",
                  "pom.xml", "build.gradle", "Gemfile"}

\* strings.ToLower on the words of the model
ToLower(w) ==
    CASE w = "Django" -> "django"
      [] w = "Flask" -> "flask"
      [] w = "FastAPI" -> "fastapi"
      [] w = "SQLAlchemy" -> "sqlalchemy"
      [] w = "Spring-Boot" -> "spring-boot"
      [] OTHER -> w

\* the words of the model that hold another word inside them
Embedded == {<<"flask-sqlalchemy", "flask">>, <<"flask-sqlalchemy", "sqlalchemy">>,
             <<"sprocket", "rocket">>}

\* hasContent: case-insensitive substring containment of a library identifier
hasContent(content, search) ==
    \E i \in 1..Len(content) :
        \/ ToLower(content[i]) = ToLower(search)
        \/ <<ToLower(content[i]), ToLower(search)>> \in Embedded

\* readFile of a text manifest: [ok, content]
readFile(name) ==
    IF readable(name) THEN [ok |-> TRUE, content |-> manifestText[name]]
    ELSE [ok |-> FALSE, content |-> <<>>]

Framework(name, type, port) == [Name |-> name, Type |-> type, Port |-> port]

\* append fw to the frameworks when cond holds
appendIf(fws, cond, fw) == IF cond THEN Append(fws, fw) ELSE fws

detectGoFrameworks(res) ==
    LET f == readFile("go.mod") IN
    IF ~f.ok THEN res
    ELSE LET a == appendIf(res.Frameworks, hasContent(f.content, "github.com/gin-gonic/gin"),
                           Framework("Gin", "web", 3000))
             b == appendIf(a, hasContent(f.content, "github.com/labstack/echo"),
                           Framework("Echo", "web", 8080))
             c == appendIf(b, hasContent(f.content, "github.com/gofiber/fiber"),
                           Framework("Fiber", "web", 3000))
             d == appendIf(c, hasContent(f.content, "gorm.io/gorm"),
                           Framework("GORM", "orm", 0))
         IN [res EXCEPT !.Frameworks = d]

\* the merged dependency map of package.json: the keys of "dependencies" and of
\* "devDependencies" (a group that is absent or no object contributes none)
packageDeps == packageJson.dependencies \cup packageJson.devDependencies

\* mutant: the records are appended in the order of the dependency keys
detectJavaScriptFrameworks_KeyOrder(res) ==
    IF ~readable("package.json") \/ ~packageJson.valid THEN res
    ELSE LET deps == packageDeps
             a == appendIf(res.Frameworks, "@nestjs/core" \in deps, Framework("NestJS", "web", 3000))
             b == appendIf(a, "express" \in deps, Framework("Express", "web", 3000))
             c == appendIf(b, "fastify" \in deps, Framework("Fastify", "web", 3000))
             d == appendIf(c, "next" \in deps, Framework("Next.js", "web", 3000))
             e == appendIf(d, "react" \in deps, Framework("React", "frontend", 3000))
             f == appendIf(e, "vue" \in deps, Framework("Vue", "frontend", 5173))
         IN [res EXCEPT !.Frameworks = f]

detectJavaScriptFrameworks(res) ==
    IF ~readable("package.json") \/ ~packageJson.valid THEN res
    ELSE LET deps == packageDeps
             a == appendIf(res.Frameworks, "next" \in deps, Framework("Next.js", "web", 3000))
             b == appendIf(a, "react" \in deps, Framework("React", "frontend", 3000))
             c == appendIf(b, "vue" \in deps, Framework("Vue", "frontend", 5173))
             d == appendIf(c, "express" \in deps, Framework("Express", "web", 3000))
             e == appendIf(d, "fastify" \in deps, Framework("Fastify", "web", 3000))
             f == appendIf(e, "@nestjs/core" \in deps, Framework("NestJS", "web", 3000))
         IN [res EXCEPT !.Frameworks = f]

\* mutant: the pyproject.toml checks do not look at what was found before
detectPythonFrameworks_NoFoundGuard(res) ==
    LET req == readFile("requirements.txt")
        a == appendIf(res.Frameworks, req.ok /\ hasContent(req.content, "django"),
                      Framework("Django", "web", 8000))
        b == appendIf(a, req.ok /\ hasContent(req.content, "flask"),
                      Framework("Flask", "web", 5000))
        c == appendIf(b, req.ok /\ hasContent(req.content, "fastapi"),
                      Framework("FastAPI", "web", 8000))
        d == appendIf(c, req.ok /\ hasContent(req.content, "sqlalchemy"),
                      Framework("SQLAlchemy", "orm", 0))
        py == readFile("pyproject.toml")
        e == appendIf(d, py.ok /\ hasContent(py.content, "django"),
                      Framework("Django", "web", 8000))
        f == appendIf(e, py.ok /\ hasContent(py.content, "flask"),
                      Framework("Flask", "web", 5000))
        g == appendIf(f, py.ok /\ hasContent(py.content, "fastapi"),
                      Framework("FastAPI", "web", 8000))
    IN [res EXCEPT !.Frameworks = g]

\* detectPythonFrameworks: requirements.txt, then pyproject.toml, whose checks
\* are each skipped once anything was found
detectPythonFrameworks(res) ==
    LET req == readFile("requirements.txt")
        a == appendIf(res.Frameworks, req.ok /\ hasContent(req.content, "django"),
                      Framework("Django", "web", 8000))
        b == appendIf(a, req.ok /\ hasContent(req.content, "flask"),
                      Framework("Flask", "web", 5000))
        c == appendIf(b, req.ok /\ hasContent(req.content, "fastapi"),
                      Framework("FastAPI", "web", 8000))
        d == appendIf(c, req.ok /\ hasContent(req.content, "sqlalchemy"),
                      Framework("SQLAlchemy", "orm", 0))
        found0 == Len(d) > Len(res.Frameworks)
        py == readFile("pyproject.toml")
        e == appendIf(d, py.ok /\ hasContent(py.content, "django") /\ ~found0,
                      Framework("Django", "web", 8000))
        found1 == found0 \/ Len(e) > Len(d)
        f == appendIf(e, py.ok /\ hasContent(py.content, "flask") /\ ~found1,
                      Framework("Flask", "web", 5000))
        found2 == found1 \/ Len(f) > Len(e)
        g == appendIf(f, py.ok /\ hasContent(py.content, "fastapi") /\ ~found2,
                      Framework("FastAPI", "web", 8000))
    IN [res EXCEPT !.Frameworks = g]

detectRustFrameworks(res) ==
    LET f == readFile("Cargo.toml") IN
    IF ~f.ok THEN res
    ELSE LET a == appendIf(res.Frameworks, hasContent(f.content, "actix-web"),
                           Framework("Actix", "web", 8000))
             b == appendIf(a, hasContent(f.content, "rocket"), Framework("Rocket", "web", 8000))
             c == appendIf(b, hasContent(f.content, "axum"), Framework("Axum", "web", 8000))
         IN [res EXCEPT !.Frameworks = c]

\* detectJavaFrameworks: build.gradle is read only when pom.xml cannot be
detectJavaFrameworks(res) ==
    LET pom == readFile("pom.xml")
        gradle == readFile("build.gradle")
    IN IF pom.ok
       THEN [res EXCEPT !.Frameworks = appendIf(@, hasContent(pom.content, "spring-boot"),
                                                Framework("Spring Boot", "web", 8080))]
       ELSE IF gradle.ok
       THEN [res EXCEPT !.Frameworks = appendIf(@, hasContent(gradle.content, "spring-boot"),
                                                Framework("Spring Boot", "web", 8080))]
       ELSE res

detectRubyFrameworks(res) ==
    LET f == readFile("Gemfile") IN
    IF ~f.ok THEN res
    ELSE LET a == appendIf(res.Frameworks, hasContent(f.content, "rails"),
                           Framework("Rails", "web", 3000))
             b == appendIf(a, hasContent(f.content, "sinatra"), Framework("Sinatra", "web", 4567))
         IN [res EXCEPT !.Frameworks = b]

\* mutant: a language without a sub-routine falls through to the Go one
detectFrameworks_DefaultGo(res) ==
    LET r0 == [res EXCEPT !.Frameworks = <<>>]
        r1 == CASE r0.Language \in {"javascript", "typescript"} -> detectJavaScriptFrameworks(r0)
                [] r0.Language = "python" -> detectPythonFrameworks(r0)
                [] r0.Language = "rust" -> detectRustFrameworks(r0)
                [] r0.Language = "java" -> detectJavaFrameworks(r0)
                [] r0.Language = "ruby" -> detectRubyFrameworks(r0)
                [] OTHER -> detectGoFrameworks(r0)
    IN [res |-> r1, err |-> Nil]

\* detectFrameworks: reset the list, then dispatch on the detected language
detectFrameworks(res) ==
    LET r0 == [res EXCEPT !.Frameworks = <<>>]
        r1 == CASE r0.Language = "go" -> detectGoFrameworks(r0)
                [] r0.Language \in {"javascript", "typescript"} -> detectJavaScriptFrameworks(r0)
                [] r0.Language = "python" -> detectPythonFrameworks(r0)
                [] r0.Language = "rust" -> detectRustFrameworks(r0)
                [] r0.Language = "java" -> detectJavaFrameworks(r0)
                [] r0.Language = "ruby" -> detectRubyFrameworks(r0)
                [] OTHER -> r0
    IN [res |-> r1, err |-> Nil]

\* ------------------------------------------------------------------------
\* Text helpers (strings package), on sequences of tokens
\* ------------------------------------------------------------------------

Whitespace == {" ", "\t"}

RECURSIVE TrimLeft(_)
TrimLeft(s) == IF s # <<>> /\ Head(s) \in Whitespace THEN TrimLeft(Tail(s)) ELSE s

RECURSIVE TrimRight(_)
TrimRight(s) ==
    IF s # <<>> /\ s[Len(s)] \in Whitespace THEN TrimRight(SubSeq(s, 1, Len(s) - 1)) ELSE s

\* strings.TrimSpace
TrimSpace(s) == TrimRight(TrimLeft(s))

\* strings.HasPrefix
HasPrefix(s, p) == Len(s) >= Len(p) /\ SubSeq(s, 1, Len(p)) = p

\* strings.HasSuffix
HasSuffix(s, p) == Len(s) >= Len(p) /\ SubSeq(s, Len(s) - Len(p) + 1, Len(s)) = p

\* strings.TrimSuffix: one occurrence of the suffix is removed
TrimSuffix(s, p) == IF HasSuffix(s, p) THEN SubSeq(s, 1, Len(s) - Len(p)) ELSE s

\* strings.Contains for a one-token needle
Contains(s, tok) == \E i \in 1..Len(s) : s[i] = tok

\* ------------------------------------------------------------------------
\* Docker detection
\* ------------------------------------------------------------------------

ComposeFiles == {"docker-compose.yml", "docker-compose.yaml"}

ServicesKey == <<"services", ":">>

\* mutant: the dedup pass is lost, the slice is returned as collected
removeDuplicates_Identity(slice) == slice

RECURSIVE removeDuplicates(_)
\* removeDuplicates: keep the first occurrence of every item, in order
removeDuplicates(slice) ==
    IF slice = <<>> THEN <<>>
    ELSE LET front == removeDuplicates(SubSeq(slice, 1, Len(slice) - 1))
             item  == slice[Len(slice)]
         IN IF item \in Range(front) THEN front ELSE Append(front, item)

\* mutant: any line that starts with a space is taken for a service line
isServiceLine_AnyIndent(line, trimmed) ==
    Len(line) >= 2 /\ line[1] = " " /\ HasSuffix(trimmed, <<":">>)

\* the service-line test of parseDockerCompose: first byte a space, second not
isServiceLine(line, trimmed) ==
    Len(line) >= 2 /\ line[1] = " " /\ line[2] # " " /\ HasSuffix(trimmed, <<":">>)

\* mutant: an unindented line does not end the services block
composeStep_NoExit(line, st) ==
    LET trimmed == TrimSpace(line) IN
    IF trimmed = <<>> \/ HasPrefix(trimmed, <<"#">>) THEN st
    ELSE IF HasPrefix(trimmed, ServicesKey) THEN [st EXCEPT !.inServices = TRUE]
    ELSE IF ~st.inServices THEN st
    ELSE IF isServiceLine(line, trimmed)
    THEN LET serviceName == TrimSuffix(TrimSpace(line), <<":">>)
         IN IF serviceName # <<>> /\ ~Contains(serviceName, " ")
            THEN [st EXCEPT !.services = Append(@, serviceName)]
            ELSE st
    ELSE st

\* mutant: empty lines and comments are not skipped before the other rules
composeStep_NoSkip(line, st) ==
    LET trimmed == TrimSpace(line) IN
    IF HasPrefix(trimmed, ServicesKey) THEN [st EXCEPT !.inServices = TRUE]
    ELSE IF ~st.inServices THEN st
    ELSE IF Len(line) > 0 /\ line[1] # " " /\ line[1] # "\t"
    THEN [st EXCEPT !.inServices = FALSE]
    ELSE IF isServiceLine(line, trimmed)
    THEN LET serviceName == TrimSuffix(TrimSpace(line), <<":">>)
         IN IF serviceName # <<>> /\ ~Contains(serviceName, " ")
            THEN [st EXCEPT !.services = Append(@, serviceName)]
            ELSE st
    ELSE st

\* one iteration of parseDockerCompose's loop over the lines;
\* st = [inServices, services]
composeStep(line, st) ==
    LET trimmed == TrimSpace(line) IN
    IF trimmed = <<>> \/ HasPrefix(trimmed, <<"#">>) THEN st
    ELSE IF HasPrefix(trimmed, ServicesKey) THEN [st EXCEPT !.inServices = TRUE]
    ELSE IF ~st.inServices THEN st
    ELSE IF Len(line) > 0 /\ line[1] # " " /\ line[1] # "\t"
            /\ ~HasPrefix(trimmed, ServicesKey)
    THEN [st EXCEPT !.inServices = FALSE]
    ELSE IF isServiceLine(line, trimmed)
    THEN LET serviceName == TrimSuffix(TrimSpace(line), <<":">>)
         IN IF serviceName # <<>> /\ ~Contains(serviceName, " ")
            THEN [st EXCEPT !.services = Append(@, serviceName)]
            ELSE st
    ELSE st

RECURSIVE composeLoop(_, _)
\* the loop of parseDockerCompose over the first lines of a file
composeLoop(lines, st) ==
    IF lines = <<>> THEN st
    ELSE composeStep(lines[Len(lines)], composeLoop(SubSeq(lines, 1, Len(lines) - 1), st))

\* mutant: the read error is not checked, the text is parsed all the same
parseDockerCompose_ReadErrorIgnored(path, res) ==
    LET st == composeLoop(composeText[path],
                          [inServices |-> FALSE, services |-> res.DockerServices])
    IN [res EXCEPT !.DockerServices = removeDuplicates(st.services)]

\* parseDockerCompose: an unreadable file is logged and contributes nothing
parseDockerCompose(path, res) ==
    IF ~readable(path) THEN res
    ELSE LET st == composeLoop(composeText[path],
                               [inServices |-> FALSE, services |-> res.DockerServices])
         IN [res EXCEPT !.DockerServices = removeDuplicates(st.services)]

\* mutant: the .yaml spelling of the compose file is not probed
detectDocker_YmlOnly(res) ==
    LET r1 == IF fileExists("Dockerfile") THEN [res EXCEPT !.DockerDetected = TRUE] ELSE res
        r2 == IF fileExists("docker-compose.yml")
              THEN parseDockerCompose("docker-compose.yml", [r1 EXCEPT !.DockerDetected = TRUE])
              ELSE r1
    IN [res |-> r2, err |-> Nil]

\* detectDocker: Dockerfile, then docker-compose.yml, then docker-compose.yaml
detectDocker(res) ==
    LET r1 == IF fileExists("Dockerfile") THEN [res EXCEPT !.DockerDetected = TRUE] ELSE res
        r2 == IF fileExists("docker-compose.yml")
              THEN parseDockerCompose("docker-compose.yml", [r1 EXCEPT !.DockerDetected = TRUE])
              ELSE r1
        r3 == IF fileExists("docker-compose.yaml")
              THEN parseDockerCompose("docker-compose.yaml", [r2 EXCEPT !.DockerDetected = TRUE])
              ELSE r2
    IN [res |-> r3, err |-> Nil]

\* ------------------------------------------------------------------------
\* Project structure analysis
\* ------------------------------------------------------------------------

\* paths below the root that the detector probes: never entries of ReadDir(root)
NestedPaths == {"node_modules/.bin", "src/main.rs", "src/main/java", ".github/workflows"}

\* the names of the model that contain "_test." or end in ".test.js"
TestFileNames == {"main_test.go", "app.test.js"}

testDirs == <<"test", "tests", "spec", "specs", "__tests__", ".test", ".tests">>

buildDirs == <<"build", "dist", "out", "bin", "target", "release", "debug",
               ".build", "__pycache__", "node_modules/.bin">>

depFiles == <<"go.mod", "go.sum", "package.json", "package-lock.json", "yarn.lock",
              "pnpm-lock.yaml", "requirements.txt", "setup.py", "pyproject.toml",
              "Pipfile", "Gemfile", "Gemfile.lock", "Cargo.toml", "Cargo.lock",
              "pom.xml", "build.gradle", "composer.json", "composer.lock">>

configFiles == <<".env", ".env.local", ".env.example", "config.yaml", "config.yml",
                 "config.json", ".eslintrc", ".eslintrc.json", ".prettierrc",
                 "jest.config.js", "tsconfig.json", ".pylintrc", "setup.cfg", "tox.ini",
                 ".gitignore", "Dockerfile", "docker-compose.yml", "docker-compose.yaml",
                 ".github/workflows", ".gitlab-ci.yml", ".travis.yml", "Jenkinsfile">>

\* findTestDirs: a conventional test directory, else a test file among the
\* entries of the root (a failed ReadDir is swallowed)
findTestDirs(res) ==
    IF \E i \in 1..Len(testDirs) : dirExists(testDirs[i])
    THEN [res EXCEPT !.TestDirFound = TRUE]
    ELSE IF ~listable THEN res
    ELSE IF \E n \in (exists \ NestedPaths) \ dirs : n \in TestFileNames
    THEN [res EXCEPT !.TestDirFound = TRUE]
    ELSE res

findBuildDirs(res) ==
    IF \E i \in 1..Len(buildDirs) : dirExists(buildDirs[i])
    THEN [res EXCEPT !.BuildDirFound = TRUE]
    ELSE res

RECURSIVE firstExisting_LastWins(_)
\* mutant: the loop does not return at the first hit, the last candidate wins
firstExisting_LastWins(cands) ==
    IF cands = <<>> THEN ""
    ELSE IF firstExisting_LastWins(Tail(cands)) # "" THEN firstExisting_LastWins(Tail(cands))
    ELSE IF fileExists(Head(cands)) THEN Head(cands)
    ELSE ""

RECURSIVE firstExisting(_)
\* the first candidate for which fileExists holds, "" when none does
firstExisting(cands) ==
    IF cands = <<>> THEN ""
    ELSE IF fileExists(Head(cands)) THEN Head(cands)
    ELSE firstExisting(Tail(cands))

jsEntryPoints == <<"index.js", "main.js", "app.js", "server.js", "index.ts", "main.ts">>

pyEntryPoints == <<"main.py", "app.py", "__main__.py", "run.py", "wsgi.py">>

rbEntryPoints == <<"app.rb", "main.rb", "server.rb", "config.ru">>

findMainEntrypoint(res) ==
    CASE res.Language = "go" ->
           IF fileExists("main.go") THEN [res EXCEPT !.MainEntrypoint = "main.go"] ELSE res
      [] res.Language \in {"javascript", "typescript"} ->
           IF firstExisting(jsEntryPoints) # ""
           THEN [res EXCEPT !.MainEntrypoint = firstExisting(jsEntryPoints)]
           ELSE IF readable("package.json") /\ packageJson.mainText
           THEN [res EXCEPT !.MainEntrypoint = "package.json (main field)"]
           ELSE res
      [] res.Language = "python" ->
           IF firstExisting(pyEntryPoints) # ""
           THEN [res EXCEPT !.MainEntrypoint = firstExisting(pyEntryPoints)]
           ELSE res
      [] res.Language = "rust" ->
           IF fileExists("src/main.rs") THEN [res EXCEPT !.MainEntrypoint = "src/main.rs"]
           ELSE res
      [] res.Language = "java" ->
           IF fileExists("src/main/java") THEN [res EXCEPT !.MainEntrypoint = "src/main/java"]
           ELSE res
      [] res.Language = "ruby" ->
           IF firstExisting(rbEntryPoints) # ""
           THEN [res EXCEPT !.MainEntrypoint = firstExisting(rbEntryPoints)]
           ELSE res
      [] OTHER -> res

\* mutant: only regular files are recorded, directories are skipped
depPresent_FilesOnly(name) == fileExists(name) /\ ~dirExists(name)

\* the probe of findDependencyFiles
depPresent(name) == fileExists(name)

\* mutant: the directory probe is lost
configPresent_FilesOnly(name) == fileExists(name) /\ ~dirExists(name)

\* the probe of findConfigFiles
configPresent(name) == fileExists(name) \/ dirExists(name)

RECURSIVE collectDeps(_)
\* the loop of findDependencyFiles over (the rest of) depFiles
collectDeps(cands) ==
    IF cands = <<>> THEN <<>>
    ELSE IF depPresent(Head(cands)) THEN <<Head(cands)>> \o collectDeps(Tail(cands))
    ELSE collectDeps(Tail(cands))

RECURSIVE collectConfigs(_)
\* the loop of findConfigFiles over (the rest of) configFiles
collectConfigs(cands) ==
    IF cands = <<>> THEN <<>>
    ELSE IF configPresent(Head(cands)) THEN <<Head(cands)>> \o collectConfigs(Tail(cands))
    ELSE collectConfigs(Tail(cands))

findDependencyFiles(res) ==
    [res EXCEPT !.DependencyFiles = @ \o collectDeps(depFiles)]

findConfigFiles(res) ==
    [res EXCEPT !.ConfigFiles = @ \o collectConfigs(configFiles)]

analyzeProjectStructure(res) ==
    LET r1 == findBuildDirs(findTestDirs(res))
        r2 == [r1 EXCEPT !.HasVendor = dirExists("vendor")]
    IN [res |-> findConfigFiles(findDependencyFiles(findMainEntrypoint(r2))), err |-> Nil]

\* ------------------------------------------------------------------------
\* Analyzer.Analyze
\* ------------------------------------------------------------------------

\* mutant: a manifest that is there and cannot be read aborts the analysis
Analyze_ReadErrorFatal ==
    LET l == detectLanguage(EmptyResult)
        f == detectFrameworks(l.res)
        d == detectDocker(f.res)
        p == analyzeProjectStructure(d.res)
    IN [res |-> p.res,
        subErrs |-> [language |-> l.err, frameworks |-> f.err, docker |-> d.err,
                     structure |-> p.err],
        err |-> IF \E n \in exists \cap (TextManifests \cup {"package.json"}) : ~readable(n)
                THEN Error("failed to read file", <<>>) ELSE Nil]

\* Analyze: the four sub-detectors in order; their errors are logged as
\* warnings and never returned
Analyze ==
    LET l == detectLanguage(EmptyResult)
        f == detectFrameworks(l.res)
        d == detectDocker(f.res)
        p == analyzeProjectStructure(d.res)
    IN [res |-> p.res,
        subErrs |-> [language |-> l.err, frameworks |-> f.err, docker |-> d.err,
                     structure |-> p.err],
        err |-> Nil]

\* ------------------------------------------------------------------------
\* Questionnaire
\* ------------------------------------------------------------------------

\* what a line typed at a prompt can be; "" is an empty line or end of input
Responses == {"", "y", "Y", "yes", "n"}

\* strings.ToLower(strings.TrimSpace(response)) on the responses of the model
normalize(response) == IF response = "Y" THEN "y" ELSE response

\* PromptYesNo: the default on an empty answer, else yes only for y / yes
PromptYesNo(response, defaultYes) ==
    IF normalize(response) = "" THEN defaultYes
    ELSE normalize(response) = "y" \/ normalize(response) = "yes"

\* NewMakefileConfig
NewMakefileConfig ==
    [ProjectName |-> "myproject", Language |-> "", HasDocker |-> FALSE,
     DockerImage |-> "", DockerServices |-> <<>>, DockerCompose |-> FALSE,
     EnableCI |-> FALSE, EnableDeploy |-> FALSE, CustomTargets |-> <<>>]

askProjectName(cfg, a) ==
    [cfg EXCEPT !.ProjectName = IF a.name # "" THEN a.name ELSE "myproject"]

askDocker(cfg, det, a) ==
    IF ~det.DockerDetected
    THEN IF PromptYesNo(a.docker, FALSE) THEN [cfg EXCEPT !.HasDocker = TRUE] ELSE cfg
    ELSE IF PromptYesNo(a.docker, TRUE)
    THEN [cfg EXCEPT !.HasDocker = TRUE,
                     !.DockerServices = det.DockerServices,
                     !.DockerImage = IF a.image # "" THEN a.image ELSE @,
                     !.DockerCompose = PromptYesNo(a.compose, TRUE)]
    ELSE cfg

askCICD(cfg, a) == IF PromptYesNo(a.ci, FALSE) THEN [cfg EXCEPT !.EnableCI = TRUE] ELSE cfg

askDeployment(cfg, a) ==
    IF PromptYesNo(a.deploy, FALSE) THEN [cfg EXCEPT !.EnableDeploy = TRUE] ELSE cfg

\* Ask: the prompts in order; the framework, build, test, lint, format and
\* custom-target prompts store nothing in the configuration
Ask(det, a) ==
    [cfg |-> askDeployment(askCICD(askDocker(askProjectName(NewMakefileConfig, a), det, a), a), a),
     err |-> Nil]

\* the answers of one questionnaire session that the configuration depends on
Answers ==
    [name : {"", "demo"}, docker : Responses, image : {"", "app"}, compose : Responses,
     ci : Responses, deploy : Responses]

\* ------------------------------------------------------------------------
\* Questionnaire.Ask, prompt by prompt, on the lines of standard input
\*
\* The questionnaire's own reader (q.reader) serves the project name and the
\* image name; every PromptYesNo builds a reader of its own on os.Stdin.  A
\* bufio.Reader that has to fill its buffer takes whatever the stream hands
\* over, one line or more: the lines beyond the one returned stay in that
\* reader's buffer and are lost with a reader that is thrown away.
\* ------------------------------------------------------------------------

MaxCustomAsked == 3

\* what one PromptYesNo can read: the next line and some of the lines after
\* it; the empty response at the end of the input
PromptReads ==
    IF stdin = <<>> THEN {[response |-> "", rest |-> <<>>]}
    ELSE {[response |-> Head(stdin), rest |-> SubSeq(stdin, n + 1, Len(stdin))] :
            n \in 1..Len(stdin)}

\* what one ReadString of q.reader can read: the next buffered line, or a
\* refill of the buffer from the stream
ReaderReads ==
    IF qbuf # <<>> THEN {[line |-> Head(qbuf), buf |-> Tail(qbuf), rest |-> stdin]}
    ELSE IF stdin = <<>> THEN {[line |-> "", buf |-> <<>>, rest |-> <<>>]}
    ELSE {[line |-> Head(stdin), buf |-> SubSeq(stdin, 2, n),
           rest |-> SubSeq(stdin, n + 1, Len(stdin))] : n \in 1..Len(stdin)}

\* what the steps of Ask leave alone
askFrame == <<fsVars, diskMakefile, result, subErrs, makefile, displayed, writes, runErr, pc>>

\* one PromptYesNo at position `at`: on yes the configuration becomes cfgYes
\* and Ask goes on at onYes, on no it goes on at onNo
Prompt(at, defaultYes, onYes, onNo, cfgYes) ==
    /\ pc = "detected" /\ askPc = at
    /\ \E rd \in PromptReads :
         /\ stdin' = rd.rest
         /\ IF PromptYesNo(rd.response, defaultYes)
            THEN askPc' = onYes /\ config' = cfgYes
            ELSE askPc' = onNo /\ UNCHANGED config
    /\ UNCHANGED <<qbuf, customAsked, askFrame>>

\* a position passed without a prompt
Skip(at, to) ==
    /\ pc = "detected" /\ askPc = at
    /\ askPc' = to
    /\ UNCHANGED <<stdin, qbuf, customAsked, config, askFrame>>

AskProjectName ==
    /\ pc = "detected" /\ askPc = "projectName"
    /\ \E rd \in ReaderReads :
         /\ stdin' = rd.rest /\ qbuf' = rd.buf
         /\ config' = [config EXCEPT !.ProjectName = IF rd.line # "" THEN rd.line
                                                     ELSE "myproject"]
    /\ askPc' = "framework"
    /\ UNCHANGED <<customAsked, askFrame>>

AskFramework ==
    IF result.Frameworks = <<>> THEN Skip("framework", "docker")
    ELSE Prompt("framework", TRUE, "docker", "docker", config)

\* mutant: the image name is asked for whenever Docker is accepted
AskDocker_ImageWithoutDetection ==
    IF ~result.DockerDetected
    THEN Prompt("docker", FALSE, "dockerImage", "build", [config EXCEPT !.HasDocker = TRUE])
    ELSE Prompt("docker", TRUE, "dockerImage", "build",
                [config EXCEPT !.HasDocker = TRUE, !.DockerServices = result.DockerServices])

AskDocker ==
    IF ~result.DockerDetected
    THEN Prompt("docker", FALSE, "build", "build", [config EXCEPT !.HasDocker = TRUE])
    ELSE Prompt("docker", TRUE, "dockerImage", "build",
                [config EXCEPT !.HasDocker = TRUE, !.DockerServices = result.DockerServices])

AskDockerImage ==
    /\ pc = "detected" /\ askPc = "dockerImage"
    /\ \E rd \in ReaderReads :
         /\ stdin' = rd.rest /\ qbuf' = rd.buf
         /\ config' = IF rd.line # "" THEN [config EXCEPT !.DockerImage = rd.line] ELSE config
    /\ askPc' = "dockerCompose"
    /\ UNCHANGED <<customAsked, askFrame>>

AskDockerCompose ==
    Prompt("dockerCompose", TRUE, "build", "build", [config EXCEPT !.DockerCompose = TRUE])

AskBuild == Prompt("build", TRUE, "clean", "clean", config)

AskClean == Prompt("clean", TRUE, "run", "run", config)

AskRun == Prompt("run", TRUE, "testAnyway", "testAnyway", config)

AskTestAnyway ==
    IF result.TestDirFound THEN Skip("testAnyway", "test")
    ELSE Prompt("testAnyway", FALSE, "test", "lint", config)

AskTest == Prompt("test", TRUE, "coverage", "lint", config)

AskCoverage == Prompt("coverage", TRUE, "lint", "lint", config)

AskLinting == Prompt("lint", TRUE, "format", "format", config)

AskFormatting == Prompt("format", TRUE, "cicd", "cicd", config)

AskCICD == Prompt("cicd", FALSE, "deploy", "deploy", [config EXCEPT !.EnableCI = TRUE])

AskDeployment == Prompt("deploy", FALSE, "custom", "custom", [config EXCEPT !.EnableDeploy = TRUE])

\* mutant: the loop's prompt defaults to yes
AskCustomTargets_DefaultYes ==
    /\ pc = "detected" /\ askPc = "custom"
    /\ \E rd \in PromptReads :
         /\ stdin' = rd.rest
         /\ askPc' = IF PromptYesNo(rd.response, TRUE) THEN "custom" ELSE "return"
    /\ customAsked' = IF customAsked < MaxCustomAsked THEN customAsked + 1 ELSE customAsked
    /\ UNCHANGED <<qbuf, config, askFrame>>

\* askCustomTargets: one turn of the loop, whose body stores nothing
AskCustomTargets ==
    /\ pc = "detected" /\ askPc = "custom"
    /\ \E rd \in PromptReads :
         /\ stdin' = rd.rest
         /\ askPc' = IF PromptYesNo(rd.response, FALSE) THEN "custom" ELSE "return"
    /\ customAsked' = IF customAsked < MaxCustomAsked THEN customAsked + 1 ELSE customAsked
    /\ UNCHANGED <<qbuf, config, askFrame>>

\* Ask returns the configuration to App.Run
AskReturn ==
    /\ pc = "detected" /\ askPc = "return"
    /\ askPc' = "returned"
    /\ pc' = "asked"
    /\ UNCHANGED <<fsVars, diskMakefile, result, subErrs, config, makefile, displayed, writes,
                   runErr, stdin, qbuf, customAsked>>

\* ------------------------------------------------------------------------
\* Builder.Build (package internal/generator)
\*
\* Names of targets and of services are sequences of tokens.  The custom
\* targets are a Go map keyed by name: a function from names to
\* [Dependencies, Commands]; `order` is the order in which one iteration
\* over that map yields its keys.
\* ------------------------------------------------------------------------

\* the custom target names of the model, in ascending name order
CustomNameOrder == << <<"alpha">>, <<"ci">>, <<"deploy">>, <<"zeta">> >>

RECURSIVE PermSeqs(_)
\* the orders in which a map with key set S can be iterated
PermSeqs(S) ==
    IF S = {} THEN {<<>>}
    ELSE UNION {{<<x>> \o q : q \in PermSeqs(S \ {x})} : x \in S}

RECURSIVE sortedNames(_, _)
\* the names of S in ascending name order
sortedNames(S, order) ==
    IF order = <<>> THEN <<>>
    ELSE IF Head(order) \in S THEN <<Head(order)>> \o sortedNames(S, Tail(order))
    ELSE sortedNames(S, Tail(order))

Target(name, deps, cmds) ==
    [Name |-> name, Dependencies |-> deps, Commands |-> cmds, Phony |-> TRUE]

RECURSIVE serviceTargets(_)
\* one target per compose service, in the order of the service list
serviceTargets(services) ==
    IF services = <<>> THEN <<>>
    ELSE <<Target(<<"up", "-">> \o Head(services), <<>>, <<"docker compose up">>)>>
         \o serviceTargets(Tail(services))

\* the targets synthesized from the configuration's options, in a fixed order
generatedTargets(cfg) ==
    (IF cfg.EnableCI THEN <<Target(<<"ci">>, <<>>, <<"run ci">>)>> ELSE <<>>)
    \o (IF cfg.EnableDeploy THEN <<Target(<<"deploy">>, <<>>, <<"run deploy">>)>> ELSE <<>>)
    \o (IF cfg.HasDocker
        THEN <<Target(<<"docker-build">>, <<>>, <<"docker build">>),
               Target(<<"docker-run">>, << <<"docker-build">> >>, <<"docker run">>)>>
        ELSE <<>>)
    \o (IF cfg.HasDocker /\ cfg.DockerCompose
        THEN serviceTargets(cfg.DockerServices)
             \o <<Target(<<"compose-up">>, <<>>, <<"docker compose up">>),
                  Target(<<"compose-down">>, <<>>, <<"docker compose down">>)>>
        ELSE <<>>)

\* one variable per option with a non-default value
variablesOf(cfg) ==
    (IF cfg.ProjectName # "myproject" THEN << <<"PROJECT_NAME", cfg.ProjectName>> >> ELSE <<>>)
    \o (IF cfg.DockerImage # "" THEN << <<"DOCKER_IMAGE", cfg.DockerImage>> >> ELSE <<>>)

RECURSIVE customTargets(_, _)
\* the custom targets of the map, taken in the order `names`
customTargets(cfg, names) ==
    IF names = <<>> THEN <<>>
    ELSE <<Target(Head(names), cfg.CustomTargets[Head(names)].Dependencies,
                  cfg.CustomTargets[Head(names)].Commands)>>
         \o customTargets(cfg, Tail(names))

\* mutant: a colliding generated target is kept beside the custom one
keepGenerated_All(t, cfg) == TRUE

\* a generated target stays unless a custom target of its name shadows it
keepGenerated(t, cfg) == t.Name \notin DOMAIN cfg.CustomTargets

\* the assembled targets: the generated ones not shadowed, then the custom ones
assemble(cfg, names) ==
    SelectSeq(generatedTargets(cfg), LAMBDA t : keepGenerated(t, cfg))
    \o customTargets(cfg, names)

targetNames(targets) == {targets[i].Name : i \in 1..Len(targets)}

\* the dependencies, in document order, that name no target of the document
RECURSIVE dangling(_, _)
dangling(targets, names) ==
    IF targets = <<>> THEN <<>>
    ELSE SelectSeq(Head(targets).Dependencies, LAMBDA d : d \notin names)
         \o dangling(Tail(targets), names)

RECURSIVE renderTargets(_)
\* the target blocks: a header line, then one line per command
renderTargets(targets) ==
    IF targets = <<>> THEN <<>>
    ELSE << <<"TARGET", Head(targets).Name, Head(targets).Dependencies>> >>
         \o [i \in 1..Len(Head(targets).Commands) |-> <<"CMD", Head(targets).Commands[i]>>]
         \o renderTargets(Tail(targets))

\* the document as text: variable lines, the .PHONY line, the target blocks
render(cfg, targets) ==
    [i \in 1..Len(variablesOf(cfg)) |-> <<"VAR">> \o variablesOf(cfg)[i]]
    \o << <<"PHONY", [i \in 1..Len(SelectSeq(targets, LAMBDA t : t.Phony)) |->
                        SelectSeq(targets, LAMBDA t : t.Phony)[i].Name]>> >>
    \o renderTargets(targets)

\* the result of Build for the custom targets taken in the order `names`
buildWith(cfg, names) ==
    LET targets == assemble(cfg, names)
        bad == dangling(targets, targetNames(targets))
    IN IF bad # <<>>
       THEN [text |-> NoText, err |-> Error("composition", Head(bad))]
       ELSE [text |-> render(cfg, targets), err |-> Nil]

\* mutant: the custom targets are emitted as the map iteration yields them
Build_MapOrder(cfg, order) == buildWith(cfg, order)

\* Build: the custom targets are emitted in ascending name order, whatever
\* order the map iteration yields
Build(cfg, order) == buildWith(cfg, sortedNames(DOMAIN cfg.CustomTargets, CustomNameOrder))

\* ------------------------------------------------------------------------
\* LocalFileSystem.WriteMakefile
\* ------------------------------------------------------------------------

\* os.WriteFile succeeds: the root takes writes and no directory is in the way
WriteMakefile ==
    IF writable /\ "Makefile" \notin dirs THEN Nil ELSE Error("failed to write Makefile", <<>>)

\* ------------------------------------------------------------------------
\* App.Run
\* ------------------------------------------------------------------------

NoFailure == [stage |-> "", cause |-> Nil]

Fail(stage, cause) ==
    /\ pc' = "failed"
    /\ runErr' = [stage |-> stage, cause |-> cause]

\* Phase 1: Analyze, and the check of its error
RunDetect ==
    /\ pc = "start"
    /\ LET a == Analyze IN
       /\ result' = a.res
       /\ subErrs' = a.subErrs
       /\ IF a.err # Nil
          THEN Fail("detection failed", a.err)
          ELSE pc' = "detected" /\ UNCHANGED runErr
    /\ UNCHANGED <<fsVars, diskMakefile, config, makefile, displayed, writes>>
    /\ UNCHANGED inVars

\* Phase 2: the questionnaire
RunAsk ==
    /\ pc = "detected"
    /\ \E a \in Answers :
         LET q == Ask(result, a) IN
         IF q.err # Nil
         THEN Fail("questionnaire failed", q.err) /\ UNCHANGED config
         ELSE config' = q.cfg /\ pc' = "asked" /\ UNCHANGED runErr
    /\ UNCHANGED <<fsVars, diskMakefile, result, subErrs, makefile, displayed, writes>>
    /\ UNCHANGED inVars

\* mutant: the error of Build is not checked, the run goes on
RunBuild_ErrorIgnored ==
    /\ pc = "asked"
    /\ \E order \in PermSeqs(DOMAIN config.CustomTargets) :
         makefile' = Build(config, order).text
    /\ pc' = "built"
    /\ UNCHANGED <<fsVars, diskMakefile, result, subErrs, config, displayed, writes, runErr>>
    /\ UNCHANGED inVars

\* Phase 3: Build, and the check of its error
RunBuild ==
    /\ pc = "asked"
    /\ \E order \in PermSeqs(DOMAIN config.CustomTargets) :
         LET b == Build(config, order) IN
         IF b.err # Nil
         THEN Fail("generation failed", b.err) /\ UNCHANGED makefile
         ELSE makefile' = b.text /\ pc' = "built" /\ UNCHANGED runErr
    /\ UNCHANGED <<fsVars, diskMakefile, result, subErrs, config, displayed, writes>>
    /\ UNCHANGED inVars

\* Phase 4: the preview is printed
RunPreview ==
    /\ pc = "built"
    /\ displayed' = makefile
    /\ pc' = "previewed"
    /\ UNCHANGED <<fsVars, diskMakefile, result, subErrs, config, makefile, writes, runErr>>
    /\ UNCHANGED inVars

\* mutant: the save phase does not wait for the preview
RunSave_BeforePreview ==
    /\ pc = "built"
    /\ \E r \in Responses :
         IF PromptYesNo(r, TRUE)
         THEN /\ writes' = writes + 1
              /\ IF WriteMakefile = Nil
                 THEN /\ exists' = exists \cup {"Makefile"}
                      /\ diskMakefile' = makefile
                      /\ pc' = "done"
                      /\ UNCHANGED runErr
                 ELSE /\ Fail("failed to save Makefile", WriteMakefile)
                      /\ UNCHANGED <<exists, diskMakefile>>
         ELSE /\ pc' = "done"
              /\ UNCHANGED <<exists, diskMakefile, writes, runErr>>
    /\ UNCHANGED <<dirs, unreadable, listable, composeText, manifestText, packageJson,
                   writable, result, subErrs, config, makefile, displayed>>
    /\ UNCHANGED inVars

\* Phase 5: the save prompt, and WriteMakefile when the answer is yes
RunSave ==
    /\ pc = "previewed"
    /\ \E r \in Responses :
         IF PromptYesNo(r, TRUE)
         THEN /\ writes' = writes + 1
              /\ IF WriteMakefile = Nil
                 THEN /\ exists' = exists \cup {"Makefile"}
                      /\ diskMakefile' = makefile
                      /\ pc' = "done"
                      /\ UNCHANGED runErr
                 ELSE /\ Fail("failed to save Makefile", WriteMakefile)
                      /\ UNCHANGED <<exists, diskMakefile>>
         ELSE /\ pc' = "done"
              /\ UNCHANGED <<exists, diskMakefile, writes, runErr>>
    /\ UNCHANGED <<dirs, unreadable, listable, composeText, manifestText, packageJson,
                   writable, result, subErrs, config, makefile, displayed>>
    /\ UNCHANGED inVars

\* ------------------------------------------------------------------------
\* Initial states and specifications
\* ------------------------------------------------------------------------

NoComposeText == [f \in ComposeFiles |-> <<>>]

NoManifestText == [m \in TextManifests |-> <<>>]

EmptyPackageJson ==
    [valid |-> TRUE, dependencies |-> {}, devDependencies |-> {}, mainText |-> FALSE]

\* the start of App.Run
InitRun ==
    /\ diskMakefile = NoText
    /\ result = EmptyResult
    /\ subErrs = [language |-> Nil, frameworks |-> Nil, docker |-> Nil, structure |-> Nil]
    /\ config = NewMakefileConfig
    /\ makefile = NoText
    /\ displayed = NoText
    /\ writes = 0
    /\ pc = "start"
    /\ runErr = NoFailure
    /\ stdin = <<>>
    /\ qbuf = <<>>
    /\ askPc = "idle"
    /\ customAsked = 0

\* every combination of the language marker files (and tsconfig.json), as
\* files, in an otherwise empty root
InitLang ==
    /\ exists \in SUBSET (LanguageMarkerFiles \cup {"tsconfig.json"})
    /\ dirs = {}
    /\ unreadable = {}
    /\ listable = TRUE
    /\ composeText = NoComposeText
    /\ manifestText = NoManifestText
    /\ packageJson = EmptyPackageJson
    /\ writable = TRUE
    /\ InitRun

NextDetect == RunDetect

SpecLang == InitLang /\ [][NextDetect]_vars

\* --- compose files of one root: docker-compose.yml alone, any content ---

MaxLines == 3

ComposeIndents == {<<>>, <<" ">>, <<" ", " ">>}

ComposeBodies ==
    {<<"services", ":">>, <<"web", ":">>, <<"db", ":">>, <<"#", "web", ":">>,
     <<"image", ":", " ", "app">>}

FourSpaceWeb == <<" ", " ", " ", " ", "web", ":">>

TabWeb == <<"\t", "web", ":">>

ComposeLines ==
    {ind \o body : ind \in ComposeIndents, body \in ComposeBodies} \cup {<<>>, FourSpaceWeb, TabWeb}

\* the compose file of the specification's example, indented by two spaces
\* per level
ExampleCompose ==
    << <<"services", ":">>,
       <<" ", " ", "web", ":">>,
       <<" ", " ", " ", " ", "image", ":", " ", "app">>,
       <<" ", " ", "db", ":">>,
       <<" ", " ", " ", " ", "image", ":", " ", "postgres">>,
       <<"networks", ":">>,
       <<" ", " ", "default", ":">> >>

InitCompose ==
    /\ exists = {"docker-compose.yml"}
    /\ dirs = {}
    /\ unreadable = {}
    /\ listable = TRUE
    /\ \E t \in SeqsUpTo(ComposeLines, MaxLines) \cup {ExampleCompose} :
           composeText = [NoComposeText EXCEPT !["docker-compose.yml"] = t]
    /\ manifestText = NoManifestText
    /\ packageJson = EmptyPackageJson
    /\ writable = TRUE
    /\ InitRun

SpecCompose == InitCompose /\ [][NextDetect]_vars

\* --- docker-compose.yml alone, made of the line shapes the parser's rules
\* tell apart ---

MaxParserLines == 3

ParserLines ==
    {<<"services", ":">>,                \* services:
     <<"services", ":", " ", "{}">>,     \* services: {}
     <<"services", ":", "x">>,           \* services:x
     <<" ", "web", ":">>,                \*  web:
     <<" ", "web", " ", ":">>,           \*  web :
     <<" ", "my", " ", "db", ":">>,      \*  my db:
     <<" ", ":">>,                       \*  :
     <<" ", "image", ":", " ", "app">>,  \*  image: app
     <<"\t", "db", ":">>,                \* <tab>db:
     <<"networks", ":">>,                \* networks:
     <<"#", " ", "note">>,               \* # note
     <<>>}                               \* an empty line

InitParser ==
    /\ exists = {"docker-compose.yml"}
    /\ dirs = {}
    /\ unreadable = {}
    /\ listable = TRUE
    /\ \E t \in SeqsUpTo(ParserLines, MaxParserLines) :
           composeText = [NoComposeText EXCEPT !["docker-compose.yml"] = t]
    /\ manifestText = NoManifestText
    /\ packageJson = EmptyPackageJson
    /\ writable = TRUE
    /\ InitRun

SpecParser == InitParser /\ [][NextDetect]_vars

\* --- roots with any of Dockerfile and the two compose files ---

MaxDockerLines == 3

DockerLines == {<<"services", ":">>, <<" ", "web", ":">>, <<" ", "db", ":">>}

InitDocker ==
    /\ exists \in SUBSET {"Dockerfile", "docker-compose.yml", "docker-compose.yaml"}
    /\ dirs = {}
    /\ unreadable \in SUBSET (exists \cap ComposeFiles)
    /\ listable = TRUE
    /\ composeText \in [ComposeFiles -> SeqsUpTo(DockerLines, MaxDockerLines)]
    /\ \A f \in ComposeFiles : f \notin exists => composeText[f] = <<>>
    /\ manifestText = NoManifestText
    /\ packageJson = EmptyPackageJson
    /\ writable = TRUE
    /\ InitRun

SpecDocker == InitDocker /\ [][NextDetect]_vars

\* --- roots with a few of the manifest and config candidates, as files or
\* directories ---

MaxEntries == 2

CandidateNames == Range(depFiles) \cup Range(configFiles)

RECURSIVE SubsetsUpTo(_, _)
\* the subsets of S with at most n members
SubsetsUpTo(S, n) ==
    IF n = 0 THEN {{}}
    ELSE LET smaller == SubsetsUpTo(S, n - 1)
         IN smaller \cup {T \cup {x} : T \in smaller, x \in S}

InitFiles ==
    /\ exists \in SubsetsUpTo(CandidateNames, MaxEntries)
    /\ dirs \in SUBSET exists
    /\ unreadable = {}
    /\ listable = TRUE
    /\ composeText = NoComposeText
    /\ manifestText = NoManifestText
    /\ packageJson = EmptyPackageJson
    /\ writable = TRUE
    /\ InitRun

SpecFiles == InitFiles /\ [][NextDetect]_vars

\* --- roots with a few manifests, readable or not, of any content ---

MaxManifests == 2

ManifestNames == TextManifests \cup {"package.json", "composer.json", "CMakeLists.txt"}

ManifestContents ==
    {<<>>, <<"Django">>, <<"django", "flask">>, <<"flask-sqlalchemy", "fastapi">>,
     <<"github.com/gin-gonic/gin", "gorm.io/gorm">>,
     <<"gorm.io/gorm", "github.com/gin-gonic/gin">>, <<"Spring-Boot">>,
     <<"rails", "sprocket">>}

\* package.json: text that is no JSON, an object without dependencies, an
\* object with dependencies in both groups
PackageJsons ==
    {[valid |-> FALSE, dependencies |-> {"react"}, devDependencies |-> {}, mainText |-> FALSE],
     EmptyPackageJson,
     [valid |-> TRUE, dependencies |-> {"next", "react"}, devDependencies |-> {"express"},
      mainText |-> FALSE]}

InitManifests ==
    /\ exists \in SubsetsUpTo(ManifestNames, MaxManifests)
    /\ dirs = {}
    /\ unreadable \in {{}} \cup {{n} : n \in exists}
    /\ listable = TRUE
    /\ composeText = NoComposeText
    /\ manifestText \in {[n \in TextManifests |-> IF n \in exists THEN f[n] ELSE <<>>] :
                           f \in [exists \cap TextManifests -> ManifestContents]}
    /\ packageJson \in IF "package.json" \in exists THEN PackageJsons ELSE {EmptyPackageJson}
    /\ writable = TRUE
    /\ InitRun

SpecManifests == InitManifests /\ [][NextDetect]_vars

\* --- roots with a few language markers and entry-point candidates ---

MaxEntryFiles == 3

EntryNames ==
    {"go.mod", "requirements.txt", "package.json", "tsconfig.json", "Gemfile",
     "composer.json", "CMakeLists.txt", "main.go"}
    \cup Range(jsEntryPoints) \cup Range(pyEntryPoints) \cup Range(rbEntryPoints)

InitEntry ==
    /\ exists \in SubsetsUpTo(EntryNames, MaxEntryFiles)
    /\ dirs = {}
    /\ unreadable \in SUBSET (exists \cap {"package.json"})
    /\ listable = TRUE
    /\ composeText = NoComposeText
    /\ manifestText = NoManifestText
    /\ packageJson \in IF "package.json" \in exists
                       THEN {EmptyPackageJson, [EmptyPackageJson EXCEPT !.mainText = TRUE]}
                       ELSE {EmptyPackageJson}
    /\ writable = TRUE
    /\ InitRun

SpecEntry == InitEntry /\ [][NextDetect]_vars

\* --- whole runs of App.Run on a few roots ---

RunNames == {"go.mod", "Dockerfile", "docker-compose.yml", "Makefile", "tests"}

RunCompose == << <<"services", ":">>, <<" ", "web", ":">>, <<" ", "db", ":">> >>

Init ==
    /\ exists \in SUBSET RunNames
    /\ dirs = exists \cap {"tests"}
    /\ unreadable = {}
    /\ listable \in BOOLEAN
    /\ composeText = [NoComposeText EXCEPT !["docker-compose.yml"] = RunCompose]
    /\ manifestText = NoManifestText
    /\ packageJson = EmptyPackageJson
    /\ writable \in BOOLEAN
    /\ InitRun

Next == RunDetect \/ RunAsk \/ RunBuild \/ RunPreview \/ RunSave

Spec == Init /\ [][Next]_vars

\* --- whole runs in roots with a few of the language markers ---

MaxMarkers == 2

InitSave ==
    /\ exists \in SubsetsUpTo(LanguageMarkerFiles \cup {"tsconfig.json"}, MaxMarkers)
    /\ dirs = {}
    /\ unreadable = {}
    /\ listable = TRUE
    /\ composeText = NoComposeText
    /\ manifestText = NoManifestText
    /\ packageJson = EmptyPackageJson
    /\ writable \in BOOLEAN
    /\ InitRun

SpecSave == InitSave /\ [][Next]_vars

\* --- Questionnaire.Ask after the analysis of a few roots, on input streams
\* that answer y to the first prompts and then end ---

MaxInput == 14

InputTails == {<<>>, <<"n">>, <<"">>, <<"demo">>, <<"n", "y">>}

InputStreams == {[i \in 1..k |-> "y"] \o tail : k \in 0..MaxInput, tail \in InputTails}

InitAsk ==
    /\ exists \in SUBSET {"go.mod", "Dockerfile", "docker-compose.yml", "tests"}
    /\ dirs = exists \cap {"tests"}
    /\ unreadable = {}
    /\ listable = TRUE
    /\ composeText = [NoComposeText EXCEPT !["docker-compose.yml"] = RunCompose]
    /\ manifestText = [NoManifestText EXCEPT !["go.mod"] = <<"github.com/gin-gonic/gin">>]
    /\ packageJson = EmptyPackageJson
    /\ writable = TRUE
    /\ diskMakefile = NoText
    /\ result = Analyze.res
    /\ subErrs = Analyze.subErrs
    /\ config = NewMakefileConfig
    /\ makefile = NoText
    /\ displayed = NoText
    /\ writes = 0
    /\ pc = "detected"
    /\ runErr = NoFailure
    /\ stdin \in InputStreams
    /\ qbuf = <<>>
    /\ askPc = "projectName"
    /\ customAsked = 0

NextAsk ==
    \/ AskProjectName \/ AskFramework \/ AskDocker \/ AskDockerImage \/ AskDockerCompose
    \/ AskBuild \/ AskClean \/ AskRun \/ AskTestAnyway \/ AskTest \/ AskCoverage
    \/ AskLinting \/ AskFormatting \/ AskCICD \/ AskDeployment \/ AskCustomTargets
    \/ AskReturn

\* every call of Ask's body returns: a read of a line ends with the line or
\* with the end of the input
SpecAsk == InitAsk /\ [][NextAsk]_vars /\ WF_vars(NextAsk)

\* --- App.Run from the return of the questionnaire, for every bounded
\* configuration.  The custom-target prompt stores nothing yet
\* (askCustomTargets), so a run that starts at the questionnaire never has a
\* custom target; Build is specified for every configuration. ---

MaxCustomDeps == 1

CustomNames == {<<"alpha">>, <<"ci">>, <<"zeta">>}

CustomDepNames == {<<"ci">>, <<"zeta">>, <<"ghost">>}

\* the maps of custom targets: any of the names, each with bounded dependencies
CustomMaps ==
    UNION {[S -> [Dependencies : SeqsUpTo(CustomDepNames, MaxCustomDeps),
                  Commands : {<<"echo custom">>}]] : S \in SUBSET CustomNames}

DockerChoices ==
    {[HasDocker |-> FALSE, DockerImage |-> "", DockerServices |-> <<>>, DockerCompose |-> FALSE],
     [HasDocker |-> TRUE, DockerImage |-> "app", DockerServices |-> <<>>, DockerCompose |-> FALSE],
     [HasDocker |-> TRUE, DockerImage |-> "", DockerServices |-> << <<"web">> >>,
      DockerCompose |-> TRUE]}

BuildConfigs ==
    {[ProjectName |-> name, Language |-> "", HasDocker |-> dk.HasDocker,
      DockerImage |-> dk.DockerImage, DockerServices |-> dk.DockerServices,
      DockerCompose |-> dk.DockerCompose, EnableCI |-> ci, EnableDeploy |-> dep,
      CustomTargets |-> ct] :
        name \in {"myproject", "demo"}, dk \in DockerChoices, ci \in BOOLEAN,
        dep \in BOOLEAN, ct \in CustomMaps}

InitBuild ==
    /\ exists = {}
    /\ dirs = {}
    /\ unreadable = {}
    /\ listable = TRUE
    /\ composeText = NoComposeText
    /\ manifestText = NoManifestText
    /\ packageJson = EmptyPackageJson
    /\ writable \in BOOLEAN
    /\ diskMakefile = NoText
    /\ result = Analyze.res
    /\ subErrs = Analyze.subErrs
    /\ config \in BuildConfigs
    /\ makefile = NoText
    /\ displayed = NoText
    /\ writes = 0
    /\ pc = "asked"
    /\ runErr = NoFailure
    /\ stdin = <<>>
    /\ qbuf = <<>>
    /\ askPc = "idle"
    /\ customAsked = 0

NextBuild == RunBuild \/ RunPreview \/ RunSave

SpecBuild == InitBuild /\ [][NextBuild]_vars

\* ------------------------------------------------------------------------
\* Claims about language detection (SpecLang)
\* ------------------------------------------------------------------------

\* the precedence order of the marker groups and the language of each
MarkerGroups ==
    << {"go.mod"}, {"requirements.txt", "setup.py", "pyproject.toml"}, {"package.json"},
       {"Cargo.toml"}, {"pom.xml", "build.gradle", "build.gradle.kts"}, {"Gemfile"},
       {"composer.json"}, {"CMakeLists.txt", "Makefile"} >>

GroupLanguages ==
    << {"go"}, {"python"}, {"javascript", "typescript"}, {"rust"}, {"java"}, {"ruby"},
       {"php"}, {"cpp"} >>

\* C1: for every subset of the marker files, the detected language is that of
\* the earliest marker group with a marker present, whatever later groups hold.
C1_FirstMatchWins ==
    pc = "detected" =>
        \A i \in 1..Len(MarkerGroups) :
            ( /\ MarkerGroups[i] \cap exists # {}
              /\ \A j \in 1..(i - 1) : MarkerGroups[j] \cap exists = {} )
            => result.Language \in GroupLanguages[i]

\* a root with markers of three ecosystems, classified by the earliest one
C1_Witness ==
    /\ pc = "detected"
    /\ exists \cap LanguageMarkerFiles = {"Gemfile", "composer.json", "Makefile"}
    /\ result.Language = "ruby"

\* C2: with no marker file in the root detectLanguage yields "unknown" and a
\* nil error, and after every Analyze the language is one of the ten values.
C2_UnknownWithoutMarkers ==
    pc # "start" =>
        /\ result.Language \in Languages
        /\ exists \cap LanguageMarkerFiles = {} =>
               result.Language = "unknown" /\ subErrs.language = Nil

\* a root without any marker (tsconfig.json alone is none), analysed
C2_Witness ==
    /\ pc = "detected"
    /\ exists = {"tsconfig.json"}
    /\ result.Language = "unknown"
    /\ subErrs.language = Nil

\* ------------------------------------------------------------------------
\* Claims about the compose parser (SpecCompose, SpecDocker)
\* ------------------------------------------------------------------------

ParserStart == [inServices |-> FALSE, services |-> <<>>]

\* C3: the example compose file (services web and db at two spaces, their
\* bodies at four, then networks: with default:) yields exactly [web, db].
C3_ExampleYieldsWebDb ==
    (pc = "detected" /\ composeText["docker-compose.yml"] = ExampleCompose)
        => result.DockerServices = << <<"web">>, <<"db">> >>

rawNames(f) == IF readable(f) THEN composeLoop(composeText[f], ParserStart).services ELSE <<>>

firstIndex(s, x) == CHOOSE i \in 1..Len(s) : s[i] = x /\ \A j \in 1..(i - 1) : s[j] # x

\* C5: after detectDocker the service list holds every recorded name once, in
\* the order of first occurrence over docker-compose.yml then docker-compose.yaml.
C5_ServicesDeduplicatedInOrder ==
    pc = "detected" =>
        LET raw == rawNames("docker-compose.yml") \o rawNames("docker-compose.yaml")
            svc == result.DockerServices
        IN /\ \A i, j \in 1..Len(svc) : i # j => svc[i] # svc[j]
           /\ Range(svc) = Range(raw)
           /\ \A i, j \in 1..Len(svc) : i < j => firstIndex(raw, svc[i]) < firstIndex(raw, svc[j])

\* docker-compose.yml repeats web, docker-compose.yaml brings web again and db
C5_Witness ==
    /\ pc = "detected"
    /\ {"docker-compose.yml", "docker-compose.yaml"} \subseteq exists
    /\ unreadable = {}
    /\ composeText["docker-compose.yml"] = << <<"services", ":">>, <<" ", "web", ":">>, <<" ", "web", ":">> >>
    /\ composeText["docker-compose.yaml"] = << <<"services", ":">>, <<" ", "web", ":">>, <<" ", "db", ":">> >>
    /\ result.DockerServices = << <<"web">>, <<"db">> >>

\* ------------------------------------------------------------------------
\* Claims about the manifest and config lists (SpecFiles)
\* ------------------------------------------------------------------------

indexIn(cands, x) == CHOOSE i \in 1..Len(cands) : cands[i] = x

\* found holds exactly the candidates present in the root, in candidate order
orderedSelection(found, cands) ==
    /\ Range(found) = {c \in Range(cands) : c \in exists}
    /\ \A i, j \in 1..Len(found) : i < j => indexIn(cands, found[i]) < indexIn(cands, found[j])

\* C6: the manifest list and the config list each hold exactly the candidates
\* that exist as a file or a directory, once each, in the candidate order.
C6_ListsInCandidateOrder ==
    pc = "detected" =>
        /\ orderedSelection(result.DependencyFiles, depFiles)
        /\ orderedSelection(result.ConfigFiles, configFiles)

\* package.json as a file and yarn.lock as a directory, both recorded in the
\* order of the candidate list
C6_Witness ==
    /\ pc = "detected"
    /\ exists = {"yarn.lock", "package.json"}
    /\ dirs = {"yarn.lock"}
    /\ result.DependencyFiles = <<"package.json", "yarn.lock">>
    /\ result.ConfigFiles = <<>>

\* ------------------------------------------------------------------------
\* Claims about rendering (SpecBuild)
\* ------------------------------------------------------------------------

\* the header lines of the target blocks of a text
headers(text) == SelectSeq(text, LAMBDA l : l[1] = "TARGET")

\* the positions in a text of the headers of the blocks named n
blocksOf(text, n) == {i \in 1..Len(text) : text[i][1] = "TARGET" /\ text[i][2] = n}

C8_CustomShadowsOnce ==
    makefile # NoText =>
        /\ \A i, j \in 1..Len(headers(makefile)) :
               i # j => headers(makefile)[i][2] # headers(makefile)[j][2]
        /\ \A n \in DOMAIN config.CustomTargets :
               /\ Cardinality(blocksOf(makefile, n)) = 1
               /\ \A i \in blocksOf(makefile, n) :
                      /\ makefile[i][3] = config.CustomTargets[n].Dependencies
                      /\ makefile[i + 1] = <<"CMD", config.CustomTargets[n].Commands[1]>>

\* the ci target is generated and a custom target ci is supplied; rendered
C8_Witness ==
    /\ pc = "built"
    /\ config.EnableCI
    /\ <<"ci">> \in DOMAIN config.CustomTargets
    /\ Cardinality(blocksOf(makefile, <<"ci">>)) = 1

\* the names a document assembled from cfg can define
documentNames(cfg) == targetNames(generatedTargets(cfg)) \cup DOMAIN cfg.CustomTargets

\* the dependencies of custom targets that name nothing in the document
danglingDeps(cfg) ==
    {d \in CustomDepNames :
        /\ d \notin documentNames(cfg)
        /\ \E n \in DOMAIN cfg.CustomTargets : d \in Range(cfg.CustomTargets[n].Dependencies)}

\* C9: a custom dependency that names nothing in the document makes the run
\* end with "generation failed" and a composition error naming such a
\* dependency, with nothing rendered or written; a rendered text has no
\* dependency without a block.
C9_DanglingRejected ==
    pc # "asked" =>
        IF danglingDeps(config) # {}
        THEN /\ pc = "failed"
             /\ runErr.stage = "generation failed"
             /\ runErr.cause.kind = "composition"
             /\ runErr.cause.name \in danglingDeps(config)
             /\ makefile = NoText /\ displayed = NoText
             /\ writes = 0 /\ diskMakefile = NoText /\ "Makefile" \notin exists
        ELSE /\ makefile # NoText
             /\ \A i \in 1..Len(headers(makefile)) :
                    \A d \in Range(headers(makefile)[i][3]) : blocksOf(makefile, d) # {}

\* a custom target depending on ghost, which nothing defines: the run failed
C9_Witness ==
    /\ pc = "failed"
    /\ <<"alpha">> \in DOMAIN config.CustomTargets
    /\ config.CustomTargets[<<"alpha">>].Dependencies = << <<"ghost">> >>
    /\ runErr = [stage |-> "generation failed", cause |-> Error("composition", <<"ghost">>)]
    /\ writes = 0

\* ------------------------------------------------------------------------
\* Claims about the run (Spec)
\* ------------------------------------------------------------------------

\* C10: when the root directory cannot be listed, Analyze fails and App.Run
\* ends with "detection failed" instead of going on to the questionnaire.
C10_UnlistableRootIsFatal ==
    (~listable /\ pc # "start") => (pc = "failed" /\ runErr.stage = "detection failed")

\* ------------------------------------------------------------------------
\* Claims about absent and malformed signals (SpecManifests)
\* ------------------------------------------------------------------------

\* the result of the four sub-detectors applied one after the other
inOrder ==
    analyzeProjectStructure(
        detectDocker(detectFrameworks(detectLanguage(EmptyResult).res).res).res).res

\* C11: whatever files are missing, unreadable or malformed, the run of Analyze
\* ends without error with the result of the four sub-detectors applied in
\* order; a package.json that is no valid JSON yields no frameworks.
C11_AbsentSignalsNeverAbort ==
    pc # "start" =>
        /\ pc = "detected" /\ runErr = NoFailure
        /\ result.Language \in Languages
        /\ result = inOrder
        /\ (result.Language \in {"javascript", "typescript"} /\ ~packageJson.valid)
               => result.Frameworks = <<>>

\* a JavaScript root whose package.json is no valid JSON, analysed
C11_Witness ==
    /\ pc = "detected"
    /\ exists = {"package.json"}
    /\ unreadable = {}
    /\ ~packageJson.valid
    /\ result.Language = "javascript"
    /\ result.Frameworks = <<>>

\* ------------------------------------------------------------------------
\* Claims about the containerized flag (SpecDocker)
\* ------------------------------------------------------------------------

\* C12: after detectDocker the flag DockerDetected is true exactly when
\* Dockerfile, docker-compose.yml or docker-compose.yaml exists in the root.
C12_ContainerizedIffAnyFile ==
    pc = "detected" =>
        (result.DockerDetected
            <=> \E f \in {"Dockerfile", "docker-compose.yml", "docker-compose.yaml"} : f \in exists)

\* only docker-compose.yaml is there, and the flag is set
C12_Witness ==
    /\ pc = "detected"
    /\ exists = {"docker-compose.yaml"}
    /\ result.DockerDetected

\* the other compose file
otherCompose(f) == IF f = "docker-compose.yml" THEN "docker-compose.yaml" ELSE "docker-compose.yml"

\* C13: a compose file that exists and cannot be read sets DockerDetected,
\* contributes no service name (the names are those of the other file, if it
\* can be read), and the run of Analyze ends without error.
C13_UnreadableComposeContinues ==
    pc # "start" =>
        \A f \in ComposeFiles :
            (f \in exists /\ ~readable(f)) =>
                /\ pc = "detected" /\ runErr = NoFailure
                /\ subErrs.docker = Nil
                /\ result.DockerDetected
                /\ Range(result.DockerServices) = Range(rawNames(otherCompose(f)))

\* docker-compose.yml declares web and cannot be read: flag set, no services
C13_Witness ==
    /\ pc = "detected"
    /\ exists = {"docker-compose.yml"}
    /\ unreadable = {"docker-compose.yml"}
    /\ composeText["docker-compose.yml"] = << <<"services", ":">>, <<" ", "web", ":">> >>
    /\ result.DockerDetected
    /\ result.DockerServices = <<>>

\* ------------------------------------------------------------------------
\* Claims about the framework list (SpecManifests)
\* ------------------------------------------------------------------------

\* C14: the framework list of an Analyze run holds no framework name twice.
C14_NoFrameworkTwice ==
    pc = "detected" =>
        \A i, j \in 1..Len(result.Frameworks) :
            i # j => result.Frameworks[i].Name # result.Frameworks[j].Name

\* a Python root whose requirements.txt and pyproject.toml both name Django
C14_Witness ==
    /\ pc = "detected"
    /\ exists = {"requirements.txt", "pyproject.toml"}
    /\ unreadable = {}
    /\ manifestText["requirements.txt"] = <<"Django">>
    /\ manifestText["pyproject.toml"] = <<"Django">>
    /\ result.Frameworks = <<Framework("Django", "web", 8000)>>

\* the framework names the sub-routine of a language can report
Catalogue(l) ==
    CASE l = "go" -> {"Gin", "Echo", "Fiber", "GORM"}
      [] l \in {"javascript", "typescript"} ->
             {"Next.js", "React", "Vue", "Express", "Fastify", "NestJS"}
      [] l = "python" -> {"Django", "Flask", "FastAPI", "SQLAlchemy"}
      [] l = "rust" -> {"Actix", "Rocket", "Axum"}
      [] l = "java" -> {"Spring Boot"}
      [] l = "ruby" -> {"Rails", "Sinatra"}
      [] OTHER -> {}

\* C15: for every language, detectFrameworks returns no error and reports only
\* frameworks of that language's sub-routine, whatever manifests are in the
\* root; for php, cpp and unknown it reports none.  The list of a run is the
\* list detectFrameworks returns for the detected language.
C15_OneSubroutinePerLanguage ==
    pc = "detected" =>
        /\ \A l \in Languages :
               LET out == detectFrameworks([result EXCEPT !.Language = l]) IN
               /\ out.err = Nil
               /\ {out.res.Frameworks[i].Name : i \in 1..Len(out.res.Frameworks)} \subseteq Catalogue(l)
               /\ l \in {"php", "cpp", "unknown"} => out.res.Frameworks = <<>>
               /\ out.res = [result EXCEPT !.Language = l, !.Frameworks = out.res.Frameworks]
        /\ result.Frameworks = detectFrameworks(result).res.Frameworks

\* go.mod names Gin and GORM, requirements.txt names Django: the Go root gets
\* the Go frameworks only, and the same root taken as php gets none
C15_Witness ==
    /\ pc = "detected"
    /\ exists = {"go.mod", "requirements.txt"}
    /\ unreadable = {}
    /\ manifestText["go.mod"] = <<"github.com/gin-gonic/gin", "gorm.io/gorm">>
    /\ manifestText["requirements.txt"] = <<"Django">>
    /\ result.Frameworks = <<Framework("Gin", "web", 3000), Framework("GORM", "orm", 0)>>
    /\ detectFrameworks([result EXCEPT !.Language = "php"]).res.Frameworks = <<>>

\* ------------------------------------------------------------------------
\* Claims about the order of the rendered targets (SpecBuild)
\* ------------------------------------------------------------------------

\* the target names of a text, in the order of their blocks
blockNames(text) == [i \in 1..Len(headers(text)) |-> headers(text)[i][2]]

\* the .PHONY lines of a text
phonyLines(text) == SelectSeq(text, LAMBDA l : l[1] = "PHONY")

C16_CustomLastPhonyInBlockOrder ==
    makefile # NoText =>
        LET names == blockNames(makefile)
            nGen  == Len(names) - Cardinality(DOMAIN config.CustomTargets)
        IN /\ \A i \in 1..Len(names) : (names[i] \in DOMAIN config.CustomTargets) <=> i > nGen
           /\ Len(phonyLines(makefile)) = 1
           /\ phonyLines(makefile)[1][2] = names

\* ------------------------------------------------------------------------
\* Claims about the rules of the compose parser (SpecParser)
\* ------------------------------------------------------------------------

\* the lines of docker-compose.yml
ymlLines == composeText["docker-compose.yml"]

\* the state of the parser's loop before line k of docker-compose.yml
stateBefore(k) == composeLoop(SubSeq(ymlLines, 1, k - 1), ParserStart)

\* the state of the parser's loop after line k
stateAfter(k) == composeStep(ymlLines[k], stateBefore(k))

\* C17: the parser enters the in-services state only on a line whose trimmed
\* content is exactly services:, so a file without such a line yields no
\* service.
C17_EntersOnExactKeyOnly ==
    pc = "detected" =>
        /\ \A k \in 1..Len(ymlLines) :
               (~stateBefore(k).inServices /\ stateAfter(k).inServices)
                   => TrimSpace(ymlLines[k]) = ServicesKey
        /\ (\A k \in 1..Len(ymlLines) : TrimSpace(ymlLines[k]) # ServicesKey)
               => result.DockerServices = <<>>

\* a line the parser skips: empty after trimming, or a comment
skipped(line) == TrimSpace(line) = <<>> \/ HasPrefix(TrimSpace(line), <<"#">>)

\* a line that begins, after trimming, with the services key
keyLine(line) == HasPrefix(TrimSpace(line), ServicesKey)

C19_BlankAndCommentSkipped ==
    pc = "detected" =>
        \A k \in 1..Len(ymlLines) :
            skipped(ymlLines[k]) => stateAfter(k) = stateBefore(k)

\* an unindented comment inside the services block: the service after it is
\* still reported
C19_Witness ==
    /\ pc = "detected"
    /\ ymlLines = << <<"services", ":">>, <<"#", " ", "note">>, <<" ", "web", ":">> >>
    /\ result.DockerServices = << <<"web">> >>

\* the service-declaration test of the specification
declares(line) ==
    Len(line) >= 2 /\ line[1] = " " /\ line[2] # " " /\ HasSuffix(TrimSpace(line), <<":">>)

\* the declared name: the trailing colon and the surrounding whitespace stripped
declaredName(line) == TrimSpace(TrimSuffix(TrimSpace(line), <<":">>))

\* C20: a line that is neither skipped nor a services: line adds its declared
\* name when the parser is in the services block, the line is a declaration
\* and the name is not empty and has no space inside; any other line adds
\* nothing.
C20_DeclarationsRecorded ==
    pc = "detected" =>
        \A k \in 1..Len(ymlLines) :
            stateAfter(k).services =
                IF /\ ~skipped(ymlLines[k]) /\ ~keyLine(ymlLines[k])
                   /\ stateBefore(k).inServices
                   /\ declares(ymlLines[k])
                   /\ declaredName(ymlLines[k]) # <<>>
                   /\ ~Contains(declaredName(ymlLines[k]), " ")
                THEN Append(stateBefore(k).services, declaredName(ymlLines[k]))
                ELSE stateBefore(k).services

\* ------------------------------------------------------------------------
\* Claims about the framework checks (SpecManifests)
\* ------------------------------------------------------------------------

\* the checks on text manifests: language, manifest, identifier, record
TextChecks ==
    {<<"go", "go.mod", "github.com/gin-gonic/gin", Framework("Gin", "web", 3000)>>,
     <<"go", "go.mod", "github.com/labstack/echo", Framework("Echo", "web", 8080)>>,
     <<"go", "go.mod", "github.com/gofiber/fiber", Framework("Fiber", "web", 3000)>>,
     <<"go", "go.mod", "gorm.io/gorm", Framework("GORM", "orm", 0)>>,
     <<"python", "requirements.txt", "django", Framework("Django", "web", 8000)>>,
     <<"python", "requirements.txt", "flask", Framework("Flask", "web", 5000)>>,
     <<"python", "requirements.txt", "fastapi", Framework("FastAPI", "web", 8000)>>,
     <<"python", "requirements.txt", "sqlalchemy", Framework("SQLAlchemy", "orm", 0)>>,
     <<"python", "pyproject.toml", "django", Framework("Django", "web", 8000)>>,
     <<"python", "pyproject.toml", "flask", Framework("Flask", "web", 5000)>>,
     <<"python", "pyproject.toml", "fastapi", Framework("FastAPI", "web", 8000)>>,
     <<"rust", "Cargo.toml", "actix-web", Framework("Actix", "web", 8000)>>,
     <<"rust", "Cargo.toml", "rocket", Framework("Rocket", "web", 8000)>>,
     <<"rust", "Cargo.toml", "axum", Framework("Axum", "web", 8000)>>,
     <<"java", "pom.xml", "spring-boot", Framework("Spring Boot", "web", 8080)>>,
     <<"java", "build.gradle", "spring-boot", Framework("Spring Boot", "web", 8080)>>,
     <<"ruby", "Gemfile", "rails", Framework("Rails", "web", 3000)>>,
     <<"ruby", "Gemfile", "sinatra", Framework("Sinatra", "web", 4567)>>}

\* the checks on the dependency names of package.json: name, record
PackageChecks ==
    {<<"next", Framework("Next.js", "web", 3000)>>,
     <<"react", Framework("React", "frontend", 3000)>>,
     <<"vue", Framework("Vue", "frontend", 5173)>>,
     <<"express", Framework("Express", "web", 3000)>>,
     <<"fastify", Framework("Fastify", "web", 3000)>>,
     <<"@nestjs/core", Framework("NestJS", "web", 3000)>>}

\* the sub-routine of the detected language reads this manifest in this root
isRead(manifest) ==
    /\ readable(manifest)
    /\ manifest = "build.gradle" => ~readable("pom.xml")

\* C21: every positive check of the detected language's sub-routine has its
\* record in the framework list, whatever the other checks found, and the
\* list holds records of the table only.
C21_EveryPositiveCheckAppends ==
    pc = "detected" =>
        /\ \A c \in TextChecks :
               (c[1] = result.Language /\ isRead(c[2]) /\ hasContent(manifestText[c[2]], c[3]))
                   => c[4] \in Range(result.Frameworks)
        /\ \A c \in PackageChecks :
               (/\ result.Language \in {"javascript", "typescript"}
                /\ readable("package.json") /\ packageJson.valid
                /\ c[1] \in packageJson.dependencies \cup packageJson.devDependencies)
                   => c[2] \in Range(result.Frameworks)
        /\ Range(result.Frameworks)
               \subseteq {c[4] : c \in TextChecks} \cup {c[2] : c \in PackageChecks}

\* ------------------------------------------------------------------------
\* Claims about the entry point (SpecEntry)
\* ------------------------------------------------------------------------

\* the candidate list of a language, empty for a language without a list
entryCandidates(l) ==
    CASE l \in {"javascript", "typescript"} ->
             <<"index.js", "main.js", "app.js", "server.js", "index.ts", "main.ts">>
      [] l = "python" -> <<"main.py", "app.py", "__main__.py", "run.py", "wsgi.py">>
      [] l = "ruby" -> <<"app.rb", "main.rb", "server.rb", "config.ru">>
      [] OTHER -> <<>>

\* C22: for javascript, typescript, python and ruby the entry point is the
\* first candidate of the language's list that exists; without one it is the
\* package.json main marker for javascript and typescript when package.json
\* can be read and holds "main", and unset otherwise; for php, cpp and unknown
\* it is unset.
C22_FirstEntryCandidateWins ==
    (pc = "detected" /\ result.Language \notin {"go", "rust", "java"}) =>
        LET cands == entryCandidates(result.Language)
            hits  == {i \in 1..Len(cands) : cands[i] \in exists}
        IN IF hits # {}
           THEN \E i \in hits : (\A j \in hits : i <= j) /\ result.MainEntrypoint = cands[i]
           ELSE IF /\ result.Language \in {"javascript", "typescript"}
                   /\ readable("package.json") /\ packageJson.mainText
           THEN result.MainEntrypoint = "package.json (main field)"
           ELSE result.MainEntrypoint = ""

\* a JavaScript root with app.js and main.js whose package.json holds "main":
\* main.js, the earlier candidate, is the entry point
C22_Witness ==
    /\ pc = "detected"
    /\ exists = {"package.json", "app.js", "main.js"}
    /\ packageJson.mainText
    /\ result.Language = "javascript"
    /\ result.MainEntrypoint = "main.js"

\* ------------------------------------------------------------------------
\* Claims about the Node.js languages (SpecLang)
\* ------------------------------------------------------------------------

\* C23: with package.json and none of go.mod, requirements.txt, setup.py and
\* pyproject.toml, the language is typescript when tsconfig.json exists and
\* javascript when it does not; without package.json it is never typescript.
C23_TypescriptNeedsPackageJson ==
    pc = "detected" =>
        /\ ("package.json" \in exists
            /\ exists \cap {"go.mod", "requirements.txt", "setup.py", "pyproject.toml"} = {})
               => result.Language = IF "tsconfig.json" \in exists
                                    THEN "typescript" ELSE "javascript"
        /\ "package.json" \notin exists => result.Language # "typescript"

\* tsconfig.json alone: the language is not typescript
C23_Witness ==
    /\ pc = "detected"
    /\ exists = {"tsconfig.json"}
    /\ result.Language = "unknown"

\* ------------------------------------------------------------------------
\* Claims about the stages of a run (Spec)
\* ------------------------------------------------------------------------

\* the steps of a run: a stage follows the success of the one before it, or
\* the run fails at the stage it is in
StageSteps ==
    {<<"start", "detected">>, <<"detected", "asked">>, <<"asked", "built">>,
     <<"built", "previewed">>, <<"previewed", "done">>,
     <<"start", "failed">>, <<"detected", "failed">>, <<"asked", "failed">>,
     <<"previewed", "failed">>}

\* the stage whose failure carries this message
stageOfFailure(stage) ==
    CASE stage = "detection failed" -> "start"
      [] stage = "questionnaire failed" -> "detected"
      [] stage = "generation failed" -> "asked"
      [] stage = "failed to save Makefile" -> "previewed"
      [] OTHER -> "none"

StageStep ==
    /\ <<pc, pc'>> \in StageSteps
    /\ pc' = "failed" => stageOfFailure(runErr'.stage) = pc
    /\ pc' # "failed" => runErr' = NoFailure
    \* the Writer: once, after the rendered text was displayed
    /\ writes' # writes =>
           /\ pc = "previewed" /\ writes = 0 /\ writes' = 1
           /\ makefile # NoText /\ displayed = makefile
    /\ (diskMakefile' # diskMakefile \/ exists' # exists) =>
           /\ writes' = writes + 1 /\ pc' = "done" /\ diskMakefile' = makefile
    \* a write failure is returned after the display, the text is kept
    /\ (pc' = "failed" /\ pc = "previewed") =>
           /\ writes' = 1 /\ displayed' = makefile' /\ makefile' # NoText
           /\ diskMakefile' = NoText
    \* a stage leaves the results of the stages before it alone
    /\ pc # "start" => UNCHANGED <<result, subErrs>>
    /\ pc \notin {"start", "detected"} => UNCHANGED config
    /\ pc \notin {"start", "detected", "asked"} => UNCHANGED makefile
    /\ pc # "built" => UNCHANGED displayed

DetectionOrder(l) ==
    CASE l \in {"javascript", "typescript"} ->
             <<"Next.js", "React", "Vue", "Express", "Fastify", "NestJS">>
      [] l = "go" -> <<"Gin", "Echo", "Fiber", "GORM">>
      [] OTHER -> <<>>

\* C25: for javascript, typescript and go the framework list follows the
\* fixed detection order, whatever the order of the names in the manifest,
\* and a second Analyze of the same root gives the same list.
C25_FrameworksInDetectionOrder ==
    pc = "detected" =>
        /\ result.Language \in {"javascript", "typescript", "go"} =>
               LET order == DetectionOrder(result.Language)
                   fws   == result.Frameworks
               IN \A i, j \in 1..Len(fws) :
                      i < j => \E a, b \in 1..Len(order) :
                                   a < b /\ order[a] = fws[i].Name /\ order[b] = fws[j].Name
        /\ Analyze.res.Frameworks = result.Frameworks

\* go.mod names GORM before Gin, the list has Gin before GORM
C25_Witness ==
    /\ pc = "detected"
    /\ exists = {"go.mod"}
    /\ unreadable = {}
    /\ manifestText["go.mod"] = <<"gorm.io/gorm", "github.com/gin-gonic/gin">>
    /\ result.Frameworks = <<Framework("Gin", "web", 3000), Framework("GORM", "orm", 0)>>

\* ------------------------------------------------------------------------
\* Claims about the questionnaire's dialogue (SpecAsk)
\* ------------------------------------------------------------------------

\* C26: on every finite input, however the readers take it, Ask returns.
C26_AskTerminates == <>(askPc = "returned")

\* Ask returned after the custom-target prompt was asked three times: twice
\* answered y, then the input was at its end
C26_Witness ==
    /\ askPc = "returned"
    /\ pc = "asked"
    /\ customAsked = 3
    /\ stdin = <<>>

\* ------------------------------------------------------------------------
\* Claims about the container fields of the analysis (SpecDocker)
\* ------------------------------------------------------------------------

ContainerFiles == {"Dockerfile", "docker-compose.yml", "docker-compose.yaml"}

\* C27: after Analyze, DockerDetected holds exactly when the list of config
\* files names one of Dockerfile, docker-compose.yml and docker-compose.yaml,
\* and services are listed only when DockerDetected holds.
C27_ContainerizedIffConfigListed ==
    pc = "detected" =>
        /\ result.DockerDetected <=> (Range(result.ConfigFiles) \cap ContainerFiles # {})
        /\ result.DockerServices # <<>> => result.DockerDetected

\* a root whose only container file is docker-compose.yaml, with services
C27_Witness ==
    /\ pc = "detected"
    /\ exists \cap ContainerFiles = {"docker-compose.yaml"}
    /\ result.DockerDetected
    /\ result.DockerServices # <<>>
    /\ Range(result.ConfigFiles) \cap ContainerFiles = {"docker-compose.yaml"}

\* ------------------------------------------------------------------------
\* Claims about a second analysis of a root the tool has written to (SpecSave)
\* ------------------------------------------------------------------------

\* the run wrote its Makefile into the root
saved == pc = "done" /\ writes > 0

\* C28: once a run has saved its Makefile, a new Analyze of the root reports
\* cpp where the run had detected unknown, and the run's own language
\* wherever it had detected one.
C28_SavedMakefileIsCppMarker ==
    saved =>
        /\ result.Language = "unknown" => Analyze.res.Language = "cpp"
        /\ result.Language # "unknown" => Analyze.res.Language = result.Language

\* a root without markers: the run detected unknown, saved, and the root now
\* analyses as cpp
C28_Witness ==
    /\ saved
    /\ result.Language = "unknown"
    /\ exists = {"Makefile"}
    /\ diskMakefile = makefile
    /\ Analyze.res.Language = "cpp"

\* ------------------------------------------------------------------------
\* Claims about the configuration Ask returns (SpecAsk)
\* ------------------------------------------------------------------------

\* one of the fields that only the detected branch of askDocker sets
dockerDetailSet ==
    config.DockerCompose \/ config.DockerImage # "" \/ config.DockerServices # <<>>

\* C29: in the configuration Ask returns, DockerCompose and a non-empty
\* DockerImage each need HasDocker, and DockerCompose, a non-empty DockerImage
\* and a non-empty DockerServices each need a detection that reported Docker,
\* with DockerServices equal to the detected services.
C29_DockerFieldsConsistent ==
    askPc = "returned" =>
        /\ config.DockerCompose => config.HasDocker
        /\ config.DockerImage # "" => config.HasDocker
        /\ dockerDetailSet => result.DockerDetected
        /\ dockerDetailSet => config.DockerServices = result.DockerServices

\* Docker was detected with services, and the answers accepted Docker, named
\* an image and accepted the compose targets
C29_Witness ==
    /\ askPc = "returned"
    /\ result.DockerDetected
    /\ config.HasDocker
    /\ config.DockerCompose
    /\ config.DockerImage # ""
    /\ config.DockerServices # <<>>
    /\ config.DockerServices = result.DockerServices

\* the same consistency for the questionnaire taken as one step of App.Run
\* (Spec)
C29_AtomicAskConsistent ==
    pc \in {"asked", "built", "previewed", "done"} =>
        /\ config.DockerCompose => config.HasDocker
        /\ config.DockerImage # "" => config.HasDocker
        /\ dockerDetailSet => result.DockerDetected
        /\ dockerDetailSet => config.DockerServices = result.DockerServices

====
